---- MODULE Spec2Model ----
(***************************************************************************)
(* A model of the two scripts of the repository:                           *)
(*   bench.py                                 the JXA benchmark runner     *)
(*   examples/fuzzy-custom/alfred_workflows.py   the GitHub result fetcher *)
(* Both are Python 2 scripts (integer "/" is floor division).  The two     *)
(* programs share nothing, so each has its own specification: SpecBench    *)
(* and SpecFetch.  SpecPageCount applies the page-count arithmetic of      *)
(* fetch() to every total_count of a range.                                *)
(***************************************************************************)
EXTENDS Integers, Sequences, FiniteSets, TLC

\* ------------------------------------------------------------- bounds ---
\* bench.py: REPS and VALUES are drawn from 0..MaxReps and 0..MaxValues
MaxReps == 2
MaxValues == 3
\* alfred_workflows.py: GET requests issued in one run of the model
MaxRequests == 3
\* alfred_workflows.py: items the (mocked) API serves in one run, all pages
MaxItems == 2
\* SpecPageCount: total_count ranges over 0..MaxTotal
MaxTotal == 250

VARIABLES
    \* bench.py: the source-level configuration
    REPS, VALUES, SINGLE, MULTI, MULTI_ALT,
    \* bench.py: position in main(), loop counters, logs list, STDERR
    bpc, rep, val, logs, stderr, berr,
    \* bench.py (observation): run_script attempts per strategy, and whether
    \* some external process has exited non-zero
    calls, nonzero,
    \* alfred_workflows.py: locals of fetch(), position, the output file
    fpc, results, page_count, page_number, file, ferr,
    \* alfred_workflows.py (observation): page numbers requested, status of
    \* the last response, total_count of the first response, the item list
    \* of every page returned, number of times OUTPUT was opened for writing
    requests, status, firstTotal, pages, opens,
    \* SpecPageCount: argument and result of the page-count arithmetic
    arg_total, ret_page_count

bvars == <<REPS, VALUES, SINGLE, MULTI, MULTI_ALT, bpc, rep, val, logs,
           stderr, berr, calls, nonzero>>
fvars == <<fpc, results, page_count, page_number, file, ferr, requests,
           status, firstTotal, pages, opens>>
pvars == <<arg_total, ret_page_count>>
vars == <<bvars, fvars, pvars>>

\* =========================================================================
\*                               bench.py
\* =========================================================================

\* exit codes of /usr/bin/osascript
ExitCodes == {0, 1}

\* subprocess.check_output raises CalledProcessError on a non-zero exit
\* (faulty variant: the exit status is ignored, as subprocess.call would)
run_script_ignores(exit) == FALSE
run_script_raises(exit) == exit # 0

\* "for _ in range(REPS)": another repetition is due
\* (faulty variant: one repetition too many)
more_reps_inclusive(r) == r <= REPS
more_reps(r) == r < REPS

\* "for i in range(VALUES)" in single(): another value is due
more_values(v) == v < VALUES

\* timed(title): the line logged after the body, only when it did not raise
timed(title) == [kind |-> "timed", title |-> title]

\* the configuration is fixed, and the other script is not running
BenchFrame ==
    UNCHANGED <<REPS, VALUES, SINGLE, MULTI, MULTI_ALT, fvars, pvars>>

\* an uncaught exception ends the run
BenchRaise(e) ==
    /\ bpc' = "failed" /\ berr' = e
    /\ UNCHANGED <<rep, val, logs, stderr>>

\* single(): one run_script call of the loop; the last one of a repetition
\* leaves the timed block, which logs, and returns to main's loop
single(exit) ==
    /\ bpc = "single" /\ SINGLE /\ more_reps(rep) /\ more_values(val)
    /\ calls' = [calls EXCEPT !.single = @ + 1]
    /\ nonzero' = (nonzero \/ exit # 0)
    /\ IF run_script_raises(exit)
         THEN BenchRaise("CalledProcessError")
         ELSE /\ IF more_values(val + 1)
                   THEN /\ val' = val + 1
                        /\ UNCHANGED <<rep, stderr>>
                   ELSE /\ val' = 0
                        /\ rep' = rep + 1
                        /\ stderr' = Append(stderr, timed("single"))
              /\ UNCHANGED <<bpc, berr, logs>>
    /\ BenchFrame

\* single() with VALUES = 0: the loop body never runs
single_empty ==
    /\ bpc = "single" /\ SINGLE /\ more_reps(rep) /\ ~more_values(0)
    /\ rep' = rep + 1
    /\ stderr' = Append(stderr, timed("single"))
    /\ UNCHANGED <<bpc, val, logs, berr, calls, nonzero>>
    /\ BenchFrame

\* main(): after the "if SINGLE:" loop (or past the skipped block)
main_single_end ==
    /\ bpc = "single" /\ (SINGLE => ~more_reps(rep))
    /\ IF SINGLE /\ REPS = 0
         THEN BenchRaise("ZeroDivisionError")
         ELSE /\ logs' = IF SINGLE THEN Append(logs, "single") ELSE logs
              /\ bpc' = "multi" /\ rep' = 0
              /\ UNCHANGED <<val, stderr, berr>>
    /\ UNCHANGED <<calls, nonzero>>
    /\ BenchFrame

\* multiple(): the whole script is built, then run_script is called once
multiple(exit) ==
    /\ bpc = "multi" /\ MULTI /\ more_reps(rep)
    /\ calls' = [calls EXCEPT !.multi = @ + 1]
    /\ nonzero' = (nonzero \/ exit # 0)
    /\ IF run_script_raises(exit)
         THEN BenchRaise("CalledProcessError")
         ELSE /\ rep' = rep + 1
              /\ stderr' = Append(stderr, timed("multiple"))
              /\ UNCHANGED <<bpc, val, logs, berr>>
    /\ BenchFrame

\* main(): after the "if MULTI:" loop (or past the skipped block)
main_multi_end ==
    /\ bpc = "multi" /\ (MULTI => ~more_reps(rep))
    /\ IF MULTI /\ REPS = 0
         THEN BenchRaise("ZeroDivisionError")
         ELSE /\ logs' = IF MULTI THEN Append(logs, "multi") ELSE logs
              /\ bpc' = "alt" /\ rep' = 0
              /\ UNCHANGED <<val, stderr, berr>>
    /\ UNCHANGED <<calls, nonzero>>
    /\ BenchFrame

\* multiple_alt(): the whole script is built, then run_script is called once
multiple_alt(exit) ==
    /\ bpc = "alt" /\ MULTI_ALT /\ more_reps(rep)
    /\ calls' = [calls EXCEPT !.alt = @ + 1]
    /\ nonzero' = (nonzero \/ exit # 0)
    /\ IF run_script_raises(exit)
         THEN BenchRaise("CalledProcessError")
         ELSE /\ rep' = rep + 1
              /\ stderr' = Append(stderr, timed("multi-alt"))
              /\ UNCHANGED <<bpc, val, logs, berr>>
    /\ BenchFrame

\* main(): after the "if MULTI_ALT:" loop; the summary is logged inside the
\* "if MULTI_ALT:" block
main_alt_end ==
    /\ bpc = "alt" /\ (MULTI_ALT => ~more_reps(rep))
    /\ IF MULTI_ALT /\ REPS = 0
         THEN BenchRaise("ZeroDivisionError")
         ELSE /\ logs' = IF MULTI_ALT THEN Append(logs, "multi-alt") ELSE logs
              /\ stderr' = IF MULTI_ALT
                             THEN Append(stderr, [kind |-> "summary",
                                                  entries |-> logs'])
                             ELSE stderr
              /\ bpc' = "done" /\ rep' = 0
              /\ UNCHANGED <<val, berr>>
    /\ UNCHANGED <<calls, nonzero>>
    /\ BenchFrame

BenchNext ==
    \/ \E exit \in ExitCodes : single(exit)
    \/ single_empty
    \/ main_single_end
    \/ \E exit \in ExitCodes : multiple(exit)
    \/ main_multi_end
    \/ \E exit \in ExitCodes : multiple_alt(exit)
    \/ main_alt_end

\* =========================================================================
\*                 examples/fuzzy-custom/alfred_workflows.py
\* =========================================================================

\* per_page=100 of API_URL, the divisor of the page-count arithmetic
PerPage == 100
\* data.get('total_count', 100)
DefaultTotal == 100

\* JSON null / Python None, as a value of a string field
None == "<None>"

\* HTTP statuses a response can carry (requests follows a redirect that
\* names a Location itself): success, a redirect without Location, 304 Not
\* Modified, client and server errors, a status beyond the registered classes
Statuses == {200, 302, 304, 404, 503, 600}
\* total_count values the API reports
Totals == {0, 1, 100, 101, 201}

\* items of the search result: a complete one, and ones lacking a field
ItemFull ==
    [name |-> "full", description |-> "text", owner |-> [login |-> "dean"],
     html_url |-> "https://github.com/dean/full", stargazers_count |-> 7,
     topics |-> <<"alfred-workflow">>, language |-> "Go"]
ItemNoTopics ==
    [name |-> "no-topics", description |-> "text", owner |-> [login |-> "dean"],
     html_url |-> "https://github.com/dean/no-topics", stargazers_count |-> 0,
     language |-> "Python"]
ItemNoOptional ==
    [name |-> "no-optional", description |-> "text", owner |-> [login |-> "dean"],
     html_url |-> "https://github.com/dean/no-optional", stargazers_count |-> 1]
ItemNullLanguage ==
    [name |-> "null-language", description |-> None, owner |-> [login |-> "dean"],
     html_url |-> "https://github.com/dean/null-language", stargazers_count |-> 2,
     topics |-> <<"alfred-workflow", "go">>, language |-> None]
ItemNoName ==
    [description |-> "text", owner |-> [login |-> "dean"],
     html_url |-> "https://github.com/dean/x", stargazers_count |-> 3,
     topics |-> <<>>, language |-> "Go"]
Items == {ItemFull, ItemNoTopics, ItemNoOptional, ItemNullLanguage, ItemNoName}

\* the item lists of at most n items
ItemLists(n) == UNION {[1..k -> Items] : k \in 0..n}

\* the JSON bodies of a successful response: total_count and items may each
\* be missing
Bodies(n) ==
    {[total_count |-> t, items |-> l] : t \in Totals, l \in ItemLists(n)}
    \cup {[items |-> l] : l \in ItemLists(n)}
    \cup {[total_count |-> t] : t \in Totals}

\* the responses of requests.get
\* a body that is not JSON: r.json() raises ValueError
NotJson == [not_json |-> TRUE]

\* the responses of requests.get: an error status carries the API's error
\* document; any other status, 2xx or not, carries a result document or a
\* body that r.json() cannot decode (a 304 whose body is framed by
\* Content-Length is dropped below requests and decodes to nothing, one sent
\* chunked is decoded like any other)
Responses(n) ==
    {[status_code |-> s, json |-> b] :
        s \in {c \in Statuses : c < 400 \/ c >= 600},
        b \in Bodies(n) \cup {NotJson}}
    \cup {[status_code |-> s, json |-> [message |-> "error"]] :
            s \in {c \in Statuses : c >= 400 /\ c < 600}}

\* r.raise_for_status(): HTTPError for a 4xx or 5xx status
raise_for_status(code) == code >= 400 /\ code < 600

\* the loop's exit test: "if page_count and page_number > page_count: break"
loop_break(pc, pn) == pc # 0 /\ pn > pc

\* "page_number += 1"
next_page(pn) == pn + 1

\* the page-count arithmetic: total_results / 100, plus 1 on a remainder
\* (faulty variant: the remainder is dropped)
page_count_floor(total_results) == total_results \div PerPage
page_count_of(total_results) ==
    (total_results \div PerPage)
        + (IF total_results % PerPage # 0 THEN 1 ELSE 0)

\* data.get('total_count', 100)
get_total_count(data) ==
    IF "total_count" \in DOMAIN data THEN data.total_count ELSE DefaultTotal

\* "populate page_count": only while page_count is falsy
populate_page_count(pc, data) ==
    IF pc = 0 THEN page_count_of(get_total_count(data)) ELSE pc

\* data.get('items', [])
get_items(data) == IF "items" \in DOMAIN data THEN data.items ELSE <<>>

\* d.get('topics', [])
get_topics(d) == IF "topics" \in DOMAIN d THEN d.topics ELSE <<>>

\* d.get('language') or ''
\* (faulty variant: d.get('language') without the "or ''")
get_lang_raw(d) == IF "language" \in DOMAIN d THEN d.language ELSE None
get_lang(d) ==
    LET v == IF "language" \in DOMAIN d THEN d.language ELSE None
    IN  IF v \in {None, ""} THEN "" ELSE v

\* the subscripts d['name'], d['description'], d['owner']['login'],
\* d['html_url'], d['stargazers_count'] raise KeyError on a missing key
raises_KeyError(d) ==
    \/ {"name", "description", "owner", "html_url", "stargazers_count"}
           \ DOMAIN d # {}
    \/ "login" \notin DOMAIN d.owner

\* the dict appended to results for item d
record(d) ==
    [name |-> d.name, description |-> d.description, owner |-> d.owner.login,
     url |-> d.html_url, stars |-> d.stargazers_count,
     topics |-> get_topics(d), lang |-> get_lang(d)]

\* index of the first item whose extraction raises, Len + 1 when none does
first_bad(items) ==
    IF \E k \in 1..Len(items) : raises_KeyError(items[k])
      THEN CHOOSE k \in 1..Len(items) :
              /\ raises_KeyError(items[k])
              /\ \A j \in 1..(k - 1) : ~raises_KeyError(items[j])
      ELSE Len(items) + 1

\* "extract workflows": one record appended per item, in order, until an
\* item raises
\* (faulty variant: the first item of every page is skipped)
extract_drop_first(res, items) ==
    res \o [k \in 1..(first_bad(items) - 2) |-> record(items[k + 1])]
extract(res, items) ==
    res \o [k \in 1..(first_bad(items) - 1) |-> record(items[k])]

\* number of items returned so far
RECURSIVE TotalItems(_)
TotalItems(ps) ==
    IF ps = <<>> THEN 0 ELSE Len(Head(ps)) + TotalItems(Tail(ps))

\* the output file before the run: missing, or left by an earlier run
InitialFiles ==
    {[exists |-> FALSE, content |-> <<>>],
     [exists |-> TRUE, content |-> <<record(ItemFull)>>]}

\* an uncaught exception ends the run; fetch()'s locals are lost
FetchFrame == UNCHANGED <<bvars, pvars>>

FetchRaise(e) ==
    /\ fpc' = "raised" /\ ferr' = e
    /\ UNCHANGED <<page_count, page_number, file, opens>>

\* fetch(): one pass of the while loop that does not break: the GET of
\* page_number, raise_for_status, r.json(), page_count, the records of the
\* page
fetch_page(r) ==
    /\ fpc = "loop"
    /\ ~loop_break(page_count, page_number)
    /\ Len(requests) < MaxRequests
    /\ FetchFrame
    /\ requests' = Append(requests, page_number)
    /\ status' = r.status_code
    /\ IF raise_for_status(r.status_code)
         THEN /\ FetchRaise("HTTPError")
              /\ UNCHANGED <<results, firstTotal, pages>>
         ELSE IF "not_json" \in DOMAIN r.json
         THEN /\ FetchRaise("ValueError")
              /\ UNCHANGED <<results, firstTotal, pages>>
         ELSE LET data == r.json
                  items == get_items(data)
              IN  /\ pages' = Append(pages, items)
                  /\ firstTotal' =
                       IF pages = <<>>
                         THEN (IF "total_count" \in DOMAIN data
                                 THEN data.total_count ELSE 0 - 1)
                         ELSE firstTotal
                  /\ results' = extract(results, items)
                  /\ page_number' = next_page(page_number)
                  /\ page_count' = populate_page_count(page_count, data)
                  /\ IF first_bad(items) <= Len(items)
                       THEN /\ fpc' = "raised" /\ ferr' = "KeyError"
                       ELSE UNCHANGED <<fpc, ferr>>
                  /\ UNCHANGED <<file, opens>>

\* fetch(): the break and "return results"
fetch_return ==
    /\ fpc = "loop"
    /\ loop_break(page_count, page_number)
    /\ fpc' = "fetched"
    /\ FetchFrame
    /\ UNCHANGED <<results, page_count, page_number, file, ferr, requests,
                   status, firstTotal, pages, opens>>

\* main(): open(OUTPUT, 'wb') and json.dump(results, fp, ...)
main_save ==
    /\ fpc = "fetched"
    /\ file' = [exists |-> TRUE, content |-> results]
    /\ opens' = opens + 1
    /\ fpc' = "done"
    /\ FetchFrame
    /\ UNCHANGED <<results, page_count, page_number, ferr, requests, status,
                   firstTotal, pages>>

FetchNext ==
    \/ \E r \in Responses(MaxItems - TotalItems(pages)) : fetch_page(r)
    \/ fetch_return
    \/ main_save

\* =========================================================================
\*          the page-count arithmetic of fetch(), on a range of inputs
\* =========================================================================

\* lines 59-62 of fetch() applied to total_results = arg_total
compute_page_count ==
    /\ ret_page_count = 0 - 1
    /\ ret_page_count' = page_count_of(arg_total)
    /\ UNCHANGED <<arg_total, bvars, fvars>>

PageCountNext == compute_page_count

\* =========================================================================
\*                           the specifications
\* =========================================================================

\* bench.py at the start of main(), for every configuration within the
\* bounds; the other script is not running
BenchInit ==
    /\ REPS \in 0..MaxReps
    /\ VALUES \in 0..MaxValues
    /\ SINGLE \in BOOLEAN
    /\ MULTI \in BOOLEAN
    /\ MULTI_ALT \in BOOLEAN
    /\ bpc = "single" /\ rep = 0 /\ val = 0
    /\ logs = <<>> /\ stderr = <<>> /\ berr = "none"
    /\ calls = [single |-> 0, multi |-> 0, alt |-> 0]
    /\ nonzero = FALSE
    \* alfred_workflows.py is not running
    /\ fpc = "idle" /\ results = <<>> /\ page_count = 0 /\ page_number = 1
    /\ file = [exists |-> FALSE, content |-> <<>>] /\ ferr = "none"
    /\ requests = <<>> /\ status = 0 /\ firstTotal = 0 - 1 /\ pages = <<>>
    /\ opens = 0
    /\ arg_total = 0 /\ ret_page_count = 0 - 1

\* alfred_workflows.py at the start of main(); the output file is missing
\* or left by an earlier run; bench.py is not running
FetchInit ==
    /\ fpc = "loop" /\ results = <<>> /\ page_count = 0 /\ page_number = 1
    /\ file \in InitialFiles /\ ferr = "none"
    /\ requests = <<>> /\ status = 0 /\ firstTotal = 0 - 1 /\ pages = <<>>
    /\ opens = 0
    \* bench.py is not running
    /\ REPS = 0 /\ VALUES = 0
    /\ SINGLE = FALSE /\ MULTI = FALSE /\ MULTI_ALT = FALSE
    /\ bpc = "idle" /\ rep = 0 /\ val = 0 /\ logs = <<>> /\ stderr = <<>>
    /\ berr = "none" /\ calls = [single |-> 0, multi |-> 0, alt |-> 0]
    /\ nonzero = FALSE
    /\ arg_total = 0 /\ ret_page_count = 0 - 1

\* the page-count arithmetic, for every total_count within the bound
PageCountInit ==
    /\ arg_total \in 0..MaxTotal /\ ret_page_count = 0 - 1
    \* neither script is running
    /\ REPS = 0 /\ VALUES = 0
    /\ SINGLE = FALSE /\ MULTI = FALSE /\ MULTI_ALT = FALSE
    /\ bpc = "idle" /\ rep = 0 /\ val = 0 /\ logs = <<>> /\ stderr = <<>>
    /\ berr = "none" /\ calls = [single |-> 0, multi |-> 0, alt |-> 0]
    /\ nonzero = FALSE
    /\ fpc = "idle" /\ results = <<>> /\ page_count = 0 /\ page_number = 1
    /\ file = [exists |-> FALSE, content |-> <<>>] /\ ferr = "none"
    /\ requests = <<>> /\ status = 0 /\ firstTotal = 0 - 1 /\ pages = <<>>
    /\ opens = 0

SpecBench == BenchInit /\ [][BenchNext]_vars

SpecFetch == FetchInit /\ [][FetchNext]_vars

SpecPageCount == PageCountInit /\ [][PageCountNext]_vars

\* =========================================================================
\*                              the claims
\* =========================================================================

\* ceil(n / PerPage), by its defining inequalities
Ceil(n) ==
    CHOOSE k \in 0..(n + 1) : k * PerPage >= n /\ (k - 1) * PerPage < n

\* the items of all pages, in page order and in item order within a page
RECURSIVE Flatten(_)
Flatten(ps) == IF ps = <<>> THEN <<>> ELSE Head(ps) \o Flatten(Tail(ps))

\* the summary entries of the strategies that are enabled, in main's order
EnabledEntries ==
    (IF SINGLE THEN <<"single">> ELSE <<>>)
        \o (IF MULTI THEN <<"multi">> ELSE <<>>)
        \o (IF MULTI_ALT THEN <<"multi-alt">> ELSE <<>>)

\* the positions of STDERR that hold a summary line
SummaryLines == {k \in 1..Len(stderr) : stderr[k].kind = "summary"}

\* ---------------------------------------------------------------- C1 ----
\* C1: once the first page has reported total_count, fetch() issues no
\* request beyond the pages computed from it: at most one request when
\* total_count = 0, at most ceil(total_count / 100) otherwise, and exactly
\* that many when fetch() has returned.
C1_RequestsBoundedByFirstTotal ==
    firstTotal >= 0 =>
        LET n == IF firstTotal = 0 THEN 1 ELSE Ceil(firstTotal)
        IN  /\ Len(requests) <= n
            /\ fpc \in {"fetched", "done"} => Len(requests) = n

\* ---------------------------------------------------------------- C2 ----
\* C2: the page count computed from total_count is ceil(total_count / 100):
\* the least k with k * 100 >= total_count.
C2_PageCountIsCeiling ==
    ret_page_count # 0 - 1 =>
        /\ ret_page_count * 100 >= arg_total
        /\ (ret_page_count - 1) * 100 < arg_total

\* C2 witness: a remainder rounds up (101 -> 2)
C2_Witness == arg_total = 101 /\ ret_page_count = 2

\* ---------------------------------------------------------------- C3 ----
\* C3: a response with a non-2xx status ends the run at that request with
\* the output file not opened and as it was before the run; and once the run
\* has been aborted no request is made and the file is not touched.
C3_HttpErrorAborts ==
    [][ /\ (status' # 0 /\ status' \notin 200..299) =>
              /\ fpc' = "raised"
              /\ opens' = 0 /\ file' = file /\ file' \in InitialFiles
        /\ fpc = "raised" =>
              /\ requests' = requests /\ file' = file /\ opens' = opens
      ]_vars

\* (C3, the part the code keeps: a 4xx or 5xx status aborts the run at that
\* request, whatever was fetched before, and the file is left alone)
C3_ErrorStatusAborts ==
    [][ /\ (status' >= 400 /\ status' < 600) =>
              /\ fpc' = "raised" /\ ferr' = "HTTPError"
              /\ opens' = 0 /\ file' = file /\ file' \in InitialFiles
              /\ requests' = Append(requests, page_number)
        /\ fpc = "raised" =>
              /\ requests' = requests /\ file' = file /\ opens' = opens
      ]_vars

\* ---------------------------------------------------------------- C4 ----
\* C4: a disabled strategy never invokes the external process; an enabled
\* one never invokes it more than REPS * VALUES (single) or REPS (each
\* batch strategy) times, and has invoked it exactly that many times when
\* the run has ended with no invocation failing.
C4_InvocationCounts ==
    LET want == [single |-> IF SINGLE THEN REPS * VALUES ELSE 0,
                 multi |-> IF MULTI THEN REPS ELSE 0,
                 alt |-> IF MULTI_ALT THEN REPS ELSE 0]
    IN  /\ \A s \in {"single", "multi", "alt"} : calls[s] <= want[s]
        /\ (bpc \in {"done", "failed"} /\ ~nonzero) => calls = want

\* C4 witness: REPS = 2, VALUES = 3, all enabled: 6, 2 and 2 invocations
C4_Witness ==
    /\ bpc = "done" /\ REPS = 2 /\ VALUES = 3
    /\ SINGLE /\ MULTI /\ MULTI_ALT
    /\ calls = [single |-> 6, multi |-> 2, alt |-> 2]

\* ---------------------------------------------------------------- C5 ----
\* C5: a run that completes without error, with at least one strategy
\* enabled, has logged a summary line whose entries are exactly those of
\* the enabled strategies.
C5_SummaryForEnabledStrategies ==
    (bpc = "done" /\ (SINGLE \/ MULTI \/ MULTI_ALT)) =>
        \E k \in SummaryLines : stderr[k].entries = EnabledEntries

\* ---------------------------------------------------------------- C6 ----
\* C6: after a successful fetch the output file holds one record per item
\* of the pages fetched, in page order and in item order within a page.
C6_FileHoldsEveryItemInOrder ==
    fpc = "done" =>
        LET all == Flatten(pages)
        IN  /\ file.exists
            /\ Len(file.content) = TotalItems(pages)
            /\ \A k \in 1..Len(all) :
                  /\ file.content[k].name = all[k].name
                  /\ file.content[k].url = all[k].html_url
                  /\ file.content[k].owner = all[k].owner.login
                  /\ file.content[k].stars = all[k].stargazers_count
                  /\ file.content[k].description = all[k].description

\* C6 witness: three pages, two different items on the first and none on
\* the others, two records written
C6_Witness ==
    /\ fpc = "done" /\ Len(pages) = 3
    /\ Len(pages[1]) = 2 /\ pages[2] = <<>> /\ pages[3] = <<>>
    /\ pages[1][1] # pages[1][2]
    /\ Len(file.content) = 2

\* (C6, a second case: one item on each of two pages, written in page order)
C6_WitnessTwoPages ==
    /\ fpc = "done" /\ Len(pages) = 2
    /\ Len(pages[1]) = 1 /\ Len(pages[2]) = 1 /\ pages[1] # pages[2]
    /\ Len(file.content) = 2

\* (C6, a third case: the second page came with status 304 and a result
\* document; its item is in the file after the first page's)
C6_WitnessThrough304 ==
    /\ fpc = "done" /\ status = 304 /\ Len(pages) = 2
    /\ Len(pages[1]) = 1 /\ Len(pages[2]) = 1 /\ pages[1] # pages[2]
    /\ Len(file.content) = 2

\* ---------------------------------------------------------------- C7 ----
\* C7: when an external process exits non-zero the run has failed there
\* with no summary line logged, and from then on no invocation is made and
\* nothing is logged.
C7_ProcessFailureAborts ==
    [][ /\ nonzero' => /\ bpc' = "failed" /\ berr' = "CalledProcessError"
                       /\ SummaryLines' = {}
        /\ nonzero => calls' = calls /\ stderr' = stderr
      ]_vars

\* C7 witness: the second invocation of single fails with both batch
\* strategies still to run
C7_Witness ==
    /\ bpc = "failed" /\ berr = "CalledProcessError" /\ nonzero
    /\ REPS = 2 /\ VALUES = 2 /\ MULTI /\ MULTI_ALT
    /\ calls = [single |-> 2, multi |-> 0, alt |-> 0]

\* ---------------------------------------------------------------- C8 ----
\* C8: the record of an item without topics has topics = <<>>, the record
\* of an item without language, or with a null one, has lang = ""; and the
\* fetch fails with KeyError only on an item that lacks a required field.
C8_MissingOptionalFieldsDefault ==
    LET all == Flatten(pages)
        required == {"name", "description", "owner", "html_url",
                     "stargazers_count"}
    IN  /\ Len(results) <= Len(all)
        /\ \A k \in 1..Len(results) :
              /\ "topics" \notin DOMAIN all[k] => results[k].topics = <<>>
              /\ "language" \notin DOMAIN all[k] => results[k].lang = ""
              /\ ("language" \in DOMAIN all[k] /\ all[k].language = None)
                    => results[k].lang = ""
        /\ ferr = "KeyError" =>
              \E k \in 1..Len(all) : ~(required \subseteq DOMAIN all[k])
        /\ (fpc \in {"fetched", "done"}) => Len(results) = Len(all)

\* C8 witness: an item without topics and without language, and an item
\* with a null language, have been turned into records
C8_Witness ==
    /\ fpc = "loop" /\ Len(results) = 2
    /\ \E k \in 1..2 : "topics" \notin DOMAIN Flatten(pages)[k]
    /\ \E k \in 1..2 : "language" \notin DOMAIN Flatten(pages)[k]
    /\ \E k \in 1..2 : /\ "language" \in DOMAIN Flatten(pages)[k]
                       /\ Flatten(pages)[k].language = None

\* (C8, a second case: the items came on a page with status 304)
C8_WitnessThrough304 ==
    /\ fpc = "loop" /\ status = 304 /\ Len(pages) = 1 /\ Len(results) = 2
    /\ \E k \in 1..2 : "topics" \notin DOMAIN pages[1][k]
    /\ \E k \in 1..2 : /\ "language" \in DOMAIN pages[1][k]
                       /\ pages[1][k].language = None

\* ---------------------------------------------------------------- C9 ----
\* C9: once the first response has been processed, page_count never
\* changes.
C9_PageCountNeverRederived ==
    [][pages # <<>> => page_count' = page_count]_vars

\* ---------------------------------------------------------------- C10 ---
\* C10: the k-th request is for page k, and is made only when every earlier
\* response has been processed; the output file is opened at most once,
\* only after fetch() has returned with the last response a success (2xx),
\* and no request follows it.
C10_SequentialPagesThenOneWrite ==
    [][ /\ \A k \in 1..Len(requests') : requests'[k] = k
        /\ Len(requests') > Len(requests) => Len(pages) = Len(requests)
        /\ opens' <= 1
        /\ opens' > opens =>
              /\ fpc = "fetched" /\ status \in 200..299
              /\ file'.content = results
        /\ opens >= 1 => requests' = requests
      ]_vars

\* (C10, the part the code keeps: the same, with "the last response did not
\* raise" in place of "the last response was a 2xx")
C10_SequentialPagesThenOneWriteNoRaise ==
    [][ /\ \A k \in 1..Len(requests') : requests'[k] = k
        /\ Len(requests') > Len(requests) => Len(pages) = Len(requests)
        /\ opens' <= 1
        /\ opens' > opens =>
              /\ fpc = "fetched" /\ ferr = "none"
              /\ Len(pages) = Len(requests)
              /\ file'.content = results
        /\ opens >= 1 => requests' = requests
      ]_vars

====
